---- MODULE Spec2Model ----
(***************************************************************************)
(* A model of zync.py: the Zync session, its Job objects, the preflight   *)
(* rule interpreter (Job.preflight) and the submission path               *)
(* (Zync.submit_job, Zync.submit, Job.submit).                             *)
(*                                                                         *)
(* The library is single threaded.  A public call is modelled as a        *)
(* sequence of steps of one call frame: pc is the position of the frame,  *)
(* the other call-local variables are the locals of Job.preflight and of  *)
(* Job.submit, and ruleLog / imported / requests / replies record what    *)
(* the call has done so far.  The rule service, the submission service,   *)
(* the host application and the outcome of eval() are the environment:    *)
(* their answers are chosen from small sets.                               *)
(*                                                                         *)
(* Spec is the orchestration of a constructed session; SpecMatch is the    *)
(* matcher of Job.preflight over a richer set of rules and results;        *)
(* SpecSubmit is the submission path over the params dicts of the callers; *)
(* SpecSession starts before Zync.__init__ and adds the construction,      *)
(* login, status, the get_* calls and the job controls.                    *)
(***************************************************************************)
EXTENDS Naturals, Sequences, FiniteSets, TLC

VARIABLES
    cookie,          \* Zync.cookie (HTTPBackend.cookie): the session cookie
    validate,        \* Zync.validate
    host,            \* the scripting environment importable in this process
    job,             \* Zync.job: the Job made by the last submit_job, or NoJob
    config,          \* Zync.CONFIG, INSTANCE_TYPES, FEATURES, JOB_SUBTYPES, MAYA_RENDERERS
    params,          \* the params dict of the caller, as the caller holds it
    submit_params,   \* Job.submit: submit_params, the dict that is POSTed
    cur,             \* the Job object the running call works on (self in Job.*)
    pc,              \* position of the running call
    op,              \* the public operation that was called
    preflight_list,  \* Job.preflight: preflight_list
    idx,             \* Job.preflight: position of the for loop in preflight_list
    api_result,      \* Job.preflight: api_result of the rule evaluated last
    matches,         \* Job.preflight: matches of the rule evaluated last
    ruleLog,         \* how each rule evaluated by this call ended
    imported,        \* this call attempted "import maya.cmds" / "import nuke"
    requests,        \* the HTTP requests this call has sent, in order
    replies,         \* the envelope the service answered each request with
    phase,           \* where the preflight pass of this call stands
    result           \* how the call ended: returned value or raised error

vars == << cookie, validate, host, job, config, params, submit_params, cur,
           pc, op, preflight_list, idx, api_result, matches, ruleLog, imported,
           requests, replies, phase, result >>

(***************************************************************************)
(* Bounds of the model.                                                    *)
(***************************************************************************)
MaxRules == 2      \* longest rule list the rule service returns
MaxResult == 2     \* longest list an api_call evaluates to
MaxTuple == 1      \* longest tuple an api_call evaluates to

(***************************************************************************)
(* Values an api_call can return and a condition can hold.  A value is a  *)
(* Python object: t is its type, s its text.  "uni" is a unicode string   *)
(* with a non-ASCII character, on which Python 2's str() raises            *)
(* UnicodeEncodeError.                                                     *)
(***************************************************************************)
VA == [t |-> "str", s |-> "A"]
VB == [t |-> "str", s |-> "B"]
VC == [t |-> "str", s |-> "C"]
VU == [t |-> "uni", s |-> "U"]
VNone == [t |-> "none", s |-> "None"]

\* str(result_item): the text of the object
Str(v) == v.s

\* str(result_item) raises (UnicodeEncodeError on non-ASCII unicode)
StrRaises(v) == v.t = "uni"

SeqsUpTo(S, n) == UNION {[1..k -> S] : k \in 0..n}

(***************************************************************************)
(* The preflight rules of the rule service.                                *)
(***************************************************************************)
PLACEHOLDER == "%match%"

MissingPlugins == << "Missing plugins: ", PLACEHOLDER >>
Unsupported == << PLACEHOLDER, " is unsupported; remove ", PLACEHOLDER >>
NoPlaceholder == << "Scene is not ready" >>

OpTypes == {"equal", "not_equal", "contains"}

\* the rules the rule service draws its answers from
Rules ==
    { [api_call |-> "getMissingPlugins()", operation_type |-> "not_equal",
       condition |-> {}, error |-> MissingPlugins],
      [api_call |-> "getRenderer()", operation_type |-> "equal",
       condition |-> {VA}, error |-> Unsupported],
      [api_call |-> "getLayers()", operation_type |-> "contains",
       condition |-> {VA}, error |-> MissingPlugins] }

RuleLists == SeqsUpTo(Rules, MaxRules)

(***************************************************************************)
(* What eval(preflight_obj['api_call']) can do: raise, or return a scalar, *)
(* a list or a tuple.                                                      *)
(***************************************************************************)
Outcomes(values) ==
    {[kind |-> "raise", val |-> VNone, items |-> << >>]}
    \cup {[kind |-> "scalar", val |-> v, items |-> << >>] : v \in values}
    \cup {[kind |-> "list", val |-> VNone, items |-> s] : s \in SeqsUpTo(values, MaxResult)}
    \cup {[kind |-> "tuple", val |-> VNone, items |-> s] : s \in SeqsUpTo(values, MaxTuple)}

EvalOutcomes == Outcomes({VA, VU})

\* the rules and results the matcher is checked on, one rule at a time
MatchValues == {VA, VB, VC, VU}

MatchRules ==
    [api_call : {"getRenderer()"}, operation_type : OpTypes,
     condition : {{}, {VA}, {VA, VB}, {VA, VU}},
     error : {MissingPlugins, Unsupported, NoPlaceholder}]

MatchOutcomes == Outcomes(MatchValues)

NoResult == [kind |-> "none", val |-> VNone, items |-> << >>]

\* a scalar result is not wrapped: nothing of it is matched
NormalizeDropsScalar(r) == r.items

\* lines 481-482: anything that is not a list or a tuple becomes a list
Normalize(r) ==
    IF r.kind # "list" /\ r.kind # "tuple" THEN << r.val >> ELSE r.items

\* "equal" compares the item with the whole condition instead of testing membership
ItemMatchesWholeCondition(rule, item) ==
    \/ rule.operation_type = "equal" /\ rule.condition = {item}
    \/ rule.operation_type = "not_equal" /\ item \notin rule.condition

\* "not_equal" tests membership like "equal"
ItemMatchesNotEqualIn(rule, item) ==
    \/ rule.operation_type = "equal" /\ item \in rule.condition
    \/ rule.operation_type = "not_equal" /\ item \in rule.condition

\* an operation_type that is not "not_equal" is taken for "equal"
ItemMatchesOtherAsEqual(rule, item) ==
    \/ rule.operation_type # "not_equal" /\ item \in rule.condition
    \/ rule.operation_type = "not_equal" /\ item \notin rule.condition

\* lines 488, 490: the test of one result_item against one rule
ItemMatches(rule, item) ==
    \/ rule.operation_type = "equal" /\ item \in rule.condition
    \/ rule.operation_type = "not_equal" /\ item \notin rule.condition

\* lines 487-491: the loop over api_result.  raised: str() raised on a matching
\* item; matches is then what had been collected before it.
RECURSIVE MatchLoop(_, _, _, _)
MatchLoop(rule, res, i, acc) ==
    IF i > Len(res) THEN [raised |-> FALSE, matches |-> acc]
    ELSE IF ItemMatches(rule, res[i])
         THEN IF StrRaises(res[i])
              THEN [raised |-> TRUE, matches |-> acc]
              ELSE MatchLoop(rule, res, i + 1, Append(acc, Str(res[i])))
         ELSE MatchLoop(rule, res, i + 1, acc)

\* ''.join(matches): the matches run together without a separator
JoinNoSeparator(ms) == ms

\* ', '.join(matches)
RECURSIVE Join(_)
Join(ms) ==
    IF Len(ms) = 0 THEN << >>
    ELSE IF Len(ms) = 1 THEN << ms[1] >>
    ELSE << ms[1], ", " >> \o Join(Tail(ms))

\* preflight_obj['error'].replace('%match%', joined): every occurrence
RECURSIVE Replace(_, _)
Replace(template, joined) ==
    IF Len(template) = 0 THEN << >>
    ELSE (IF Head(template) = PLACEHOLDER THEN joined ELSE << Head(template) >>)
         \o Replace(Tail(template), joined)

\* line 498: the message of the ZyncPreflightError
PreflightMessage(rule, ms) == Replace(rule.error, Join(ms))

(***************************************************************************)
(* Submission parameters.  A dict is a function from its keys to its       *)
(* values; a value is a record of its Python type t and its text s.        *)
(***************************************************************************)
PStr(s) == [t |-> "str", s |-> s]
PInt(s) == [t |-> "int", s |-> s]
PDict(s) == [t |-> "dict", s |-> s]

\* {}
EmptyDict == [k \in {} |-> PStr("")]

\* line 37
DEFAULT_INSTANCE_TYPE == "ZYNC16"

\* Job.submit, lines 514-523: the defaults built into submit_params
SubmitDefaults ==
    [k \in {"instance_type", "upload_only", "start_new_slots", "chunk_size",
            "distributed", "num_instances", "skip_check", "notify_complete",
            "job_subtype"} |->
        CASE k = "instance_type" -> PStr(DEFAULT_INSTANCE_TYPE)
          [] k = "job_subtype" -> PStr("render")
          [] k \in {"start_new_slots", "chunk_size", "num_instances"} -> PInt("1")
          [] OTHER -> PInt("0")]

\* the arguments script_path / file and write_name of the subclass submit
ScenePath == "shot.scene"
WriteName == "Write1"

\* lines 585-588, 710-712, 769-771: the defaults of the subclass submit;
\* Job.submit itself (a base Job) has none
VariantDefaults(jt) ==
    CASE jt = "nuke" -> [k \in {"job_type", "write_node", "file"} |->
                            CASE k = "job_type" -> PStr("Nuke")
                              [] k = "write_node" -> PStr(WriteName)
                              [] OTHER -> PStr(ScenePath)]
      [] jt = "maya" -> [k \in {"job_type", "file"} |->
                            IF k = "job_type" THEN PStr("Maya") ELSE PStr(ScenePath)]
      [] jt = "arnold" -> [k \in {"job_type", "file"} |->
                            IF k = "job_type" THEN PStr("Arnold") ELSE PStr(ScenePath)]
      [] OTHER -> EmptyDict

\* d.update(p) keeps the value d already has
UpdateKeepsOld(d, p) == d @@ p

\* dict.update, lines 527, 590, 714, 773: the value of p wins
Update(d, p) == p @@ d

\* json.dumps: the JSON text of a value
JsonDumps(v) == [t |-> "json", s |-> v.s]

\* lines 532-533: scene_info is replaced by its JSON text
EncodeSceneInfo(d) ==
    [k \in DOMAIN d |-> IF k = "scene_info" THEN JsonDumps(d[k]) ELSE d[k]]

\* the submit_params of Job.submit at line 541, for a job of type jt whose
\* submit is called with the params p
BuildSubmitParams(jt, p) ==
    EncodeSceneInfo(Update(SubmitDefaults, Update(VariantDefaults(jt), p)))

\* str() of a value, as urlencode applies it: the text of a str, an int or
\* a JSON text, the repr of a dict
StrOf(v) == IF v.t = "dict" THEN [t |-> "repr", s |-> v.s] ELSE PStr(v.s)

\* line 541: urlencode(submit_params), the body of the POST
UrlEncode(d) == [k \in DOMAIN d |-> StrOf(d[k])]

\* the params a caller passes in the orchestration
NoParams == EmptyDict

\* what a caller may supply for a key
CallerValue(k) ==
    CASE k = "instance_type" -> PStr("ZYNC4")
      [] k = "chunk_size" -> PInt("10")
      [] k = "job_type" -> PStr("Custom")
      [] k = "file" -> PStr("other.scene")
      [] k = "scene_info" -> PDict("files")
      [] OTHER -> PStr("1-10")

CallerKeys == {"instance_type", "chunk_size", "job_type", "file", "scene_info", "frange"}

\* the params dicts of the callers
CallerParams == {[k \in K |-> CallerValue(k)] : K \in SUBSET CallerKeys}

\* the "response" field of the envelope of an accepted submission: the job id
JobIds == {"job1", "job2"}

(***************************************************************************)
(* Job objects and call results.                                           *)
(***************************************************************************)
NoJob == [job_type |-> "unset", cookie |-> "", validate |-> TRUE]

\* Job.__init__ and the subclass __init__: lines 335-348, 561, 605, 729
NewJob(jt, c, v) == [job_type |-> jt, cookie |-> c, validate |-> v]

\* str.lower() on the job_type argument of submit_job
Lower(s) ==
    CASE s = "Maya" -> "maya"
      [] s = "NUKE" -> "nuke"
      [] OTHER -> s

JobTypeArgs == {"nuke", "NUKE", "maya", "Maya", "arnold", "houdini"}

\* the "code" field of a response envelope: 0 is success
Codes == {0, 1, 2}

\* the "response" field of an envelope that reports an error
ServiceMessages == {"maintenance", "unknown job type"}

Hosts == {"none", "maya", "nuke"}

NoOutcome == [kind |-> "none", msg |-> << >>]
Returned(v) == [kind |-> "return", msg |-> << v >>]
Raised(e, m) == [kind |-> e, msg |-> m]

Request(ep, c) == [endpoint |-> ep, cookie |-> c]

\* the JSON envelope of an answer of the service
Envelope(code, response) == [code |-> code, response |-> response]

\* the five values a session holds (lines 174-178)
ConfigKeys == {"CONFIG", "INSTANCE_TYPES", "FEATURES", "JOB_SUBTYPES", "MAYA_RENDERERS"}

\* what the service may answer a configuration request with
ConfigValues == {"v1", "v2"}

\* a session whose construction has fetched its configuration
ReadyConfig == [k \in ConfigKeys |-> "v1"]

\* no session: none of lines 174-178 has been executed
NoConfig == [k \in ConfigKeys |-> "unset"]

\* Zync.__init__ has returned: the caller holds a session
Constructed == \A k \in ConfigKeys : config[k] # "unset"

\* one entry of ruleLog: the position of the rule and how its iteration ended
Entry(i, end) == [rule |-> i, end |-> end]

\* line 160: the first Maya API version whose OpenSSL is trusted
MinMayaApi == 201400

\* what maya.mel.eval('about -api') does at line 159: it returns a version
\* or raises
ApiVersion(v) == [kind |-> "value", v |-> v]
ApiQueryFails == [kind |-> "raise", v |-> 0]

ApiVersions == {ApiVersion(MinMayaApi - 1), ApiVersion(MinMayaApi), ApiQueryFails}

\* validation is also disabled at the version 201400 itself
ValidateForInclusive(application, h, api_version) ==
    IF application = "maya" /\ h = "maya" /\ api_version.kind = "value"
       /\ api_version.v <= MinMayaApi
    THEN FALSE
    ELSE TRUE

\* lines 155-166: the validate flag of a new session; "import maya.mel"
\* works in a process that hosts the scripting of maya
ValidateFor(application, h, api_version) ==
    IF application = "maya" /\ h = "maya" /\ api_version.kind = "value"
       /\ api_version.v < MinMayaApi
    THEN FALSE
    ELSE TRUE

Applications == {"none", "maya", "nuke"}

(***************************************************************************)
(* Init: a Zync session has been constructed (line 145-178): it holds the  *)
(* cookie of the script authentication and no job.                         *)
(***************************************************************************)
Init ==
    /\ cookie = "sid1"
    /\ host \in Hosts
    /\ validate \in {ValidateFor(a, host, v) : a \in Applications, v \in ApiVersions}
    /\ job = NoJob
    /\ config = ReadyConfig
    /\ params = NoParams
    /\ submit_params = EmptyDict
    /\ replies = << >>
    /\ cur = NoJob
    /\ pc = "idle"
    /\ op = "none"
    /\ preflight_list = << >>
    /\ idx = 0
    /\ api_result = NoResult
    /\ matches = << >>
    /\ ruleLog = << >>
    /\ imported = FALSE
    /\ requests = << >>
    /\ phase = "NOT_RUN"
    /\ result = NoOutcome

\* a call starts with fresh locals and an empty record of what it did
Locals == << preflight_list, idx, api_result, matches, ruleLog, imported,
             requests, replies, phase, submit_params >>

\* submit_job goes straight to self.job.submit()
AfterConstructSubmit == "submit"

\* submit_job catches the error of preflight and goes on to submit
PcAfterRaiseSwallowed == IF op = "submit_job" THEN "submit" ELSE "done"

\* an empty cookie passes for a cookie
HasCookieAlways(c) == TRUE

\* "if cookie:" at line 335, "if self.cookie:" at lines 104 and 358
HasCookie(c) == c # ""

\* get_preflight_checks never looks at job_type
JobTypeSetAlways(j) == TRUE

\* line 427: "if self.job_type == None" is false
JobTypeSet(j) == j.job_type # "unset"

\* get_preflight_checks asks the service again after an error envelope
PcAfterRaiseRetry == IF pc = "get_preflight_checks" THEN "get_preflight_checks" ELSE "done"

\* lines 297-302: the job types submit_job has a Job subclass for
JobSelect == {"nuke", "maya", "arnold"}

\* line 313: with the Job constructed, submit_job calls self.job.preflight()
AfterConstruct == "get_preflight_checks"

\* lines 313-317: an error raised in self.job.preflight() is not caught by
\* submit_job (nor by preflight): it ends the call
PcAfterRaise == "done"

(***************************************************************************)
(* Zync.submit_job, lines 296-308: select the Job subclass, construct the  *)
(* Job with the session's cookie and keep it in self.job.                  *)
(***************************************************************************)
SubmitJobCall(job_type, p) ==
    /\ pc = "idle"
    /\ Constructed
    /\ op' = "submit_job"
    /\ params' = p
    /\ LET jt == Lower(job_type) IN
       IF jt \notin JobSelect
       THEN /\ result' = Raised("ZyncError", << "Unrecognized job_type ", jt >>)
            /\ pc' = "done"
            /\ UNCHANGED << job, cur >>
       ELSE IF ~HasCookie(cookie)
       THEN /\ result' = Raised("ZyncAuthenticationError", << "ZYNC Authentication failed." >>)
            /\ pc' = "done"
            /\ UNCHANGED << job, cur >>
       ELSE /\ job' = NewJob(jt, cookie, validate)
            /\ cur' = NewJob(jt, cookie, validate)
            /\ result' = NoOutcome
            /\ pc' = AfterConstruct
    /\ UNCHANGED << cookie, validate, host, config >>
    /\ UNCHANGED Locals

\* preflight goes on with the rules it held before the fetch
FetchedRulesStale(response) == preflight_list

\* lines 435, 447: preflight_list is the response field of the envelope
FetchedRules(response) == response

\* the ZyncError says only that the fetch failed
FetchErrorMessageFixed(response) == << "Could not retrieve list of preflight checks" >>

\* line 437: the message of the ZyncError holds content_obj['response']
FetchErrorMessage(response) ==
    << "Could not retrieve list of preflight checks: ", response >>

(***************************************************************************)
(* Job.get_preflight_checks, lines 427-437, called at line 447: code and   *)
(* response are the fields of the envelope the service answers with.       *)
(***************************************************************************)
GetPreflightChecks(code, response) ==
    /\ pc = "get_preflight_checks"
    /\ IF ~JobTypeSet(cur)
       THEN /\ result' = Raised("ZyncError", << "job_type parameter not set" >>)
            /\ pc' = PcAfterRaise
            /\ UNCHANGED << requests, replies, preflight_list, phase >>
       ELSE IF ~HasCookie(cur.cookie)
       THEN /\ result' = Raised("ZyncAuthenticationError", << "ZYNC Auth Failed" >>)
            /\ pc' = PcAfterRaise
            /\ UNCHANGED << requests, replies, preflight_list, phase >>
       ELSE /\ requests' = Append(requests, Request("get_preflight_checks.php", cur.cookie))
            /\ replies' = Append(replies, Envelope(code, response))
            /\ IF code = 0
               THEN /\ preflight_list' = FetchedRules(response)
                    /\ phase' = "FETCHING"
                    /\ pc' = "import"
                    /\ UNCHANGED result
               ELSE /\ result' = Raised("ZyncError", FetchErrorMessage(response))
                    /\ phase' = "FETCHING"
                    /\ pc' = PcAfterRaise
                    /\ UNCHANGED preflight_list
    /\ UNCHANGED << cookie, validate, host, job, config, params, submit_params,
                    cur, op, idx, api_result,
                    matches, ruleLog, imported >>

\* Job.preflight has returned normally (line 462, 467 or the end of the loop):
\* Zync.submit_job goes on to line 317, a direct call of preflight is over.
AfterPreflight ==
    IF op = "submit_job"
    THEN pc' = "submit" /\ UNCHANGED result
    ELSE pc' = "done" /\ result' = Returned("None")

\* only a maya job imports its scripting module
ImportsAppMayaOnly(rules, jt) == Len(rules) > 0 /\ jt = "maya"

\* the import does not depend on there being rules
ImportsAppWithoutRules(rules, jt) == jt \in {"maya", "nuke"}

\* lines 457, 458, 463: the job imports the scripting module of its application
ImportsApp(rules, jt) == Len(rules) > 0 /\ jt \in {"maya", "nuke"}

(***************************************************************************)
(* Job.preflight, lines 457-467: with at least one rule, import the        *)
(* scripting module of the job's application; return if that fails.        *)
(***************************************************************************)
ImportApp ==
    /\ pc = "import"
    /\ IF ImportsApp(preflight_list, cur.job_type)
       THEN /\ imported' = TRUE
            /\ IF host = cur.job_type
               THEN /\ pc' = "loop"
                    /\ phase' = "EVALUATING"
                    /\ UNCHANGED result
               ELSE /\ phase' = "SKIPPED"
                    /\ AfterPreflight
       ELSE /\ pc' = "loop"
            /\ phase' = "EVALUATING"
            /\ UNCHANGED << imported, result >>
    /\ idx' = 1
    /\ UNCHANGED << cookie, validate, host, job, config, params, submit_params,
                    cur, op, preflight_list,
                    api_result, matches, ruleLog, requests, replies >>

\* the loop runs over the rules in reverse
RuleAtReversed(i) == preflight_list[Len(preflight_list) + 1 - i]

\* "except: break" ends the loop
AfterRuleErrorBreak == Len(preflight_list) + 1

\* line 471: the rule of the i-th iteration of the loop
RuleAt(i) == preflight_list[i]

\* lines 492-493: "except: continue" goes on with the next rule
AfterRuleError == idx + 1

\* an error in the loop over api_result only ends that loop: line 497 goes on
\* with the matches collected before it
MatchRaisedIgnored(m) == FALSE

\* lines 487-493: an error raised at line 489 or 491 leaves the try block
MatchRaised(m) == m.raised

\* line 497: the rule blocks the submission
Blocks(ms) == Len(ms) > 0

(***************************************************************************)
(* Job.preflight, lines 471-498: one iteration of the loop over the rules. *)
(* outcome is what eval(preflight_obj['api_call']) does.                   *)
(***************************************************************************)
EvalRule(outcome) ==
    /\ pc = "loop"
    /\ idx <= Len(preflight_list)
    /\ LET preflight_obj == RuleAt(idx)
           m == MatchLoop(preflight_obj, Normalize(outcome), 1, << >>)
       IN
       /\ api_result' = outcome
       /\ IF outcome.kind = "raise"
          THEN \* line 477 raised: except ... continue
               /\ matches' = << >>
               /\ ruleLog' = Append(ruleLog, Entry(idx, "error"))
               /\ idx' = AfterRuleError
               /\ UNCHANGED << pc, phase, result >>
          ELSE IF MatchRaised(m)
          THEN \* line 489 or 491 raised: except ... continue
               /\ matches' = m.matches
               /\ ruleLog' = Append(ruleLog, Entry(idx, "error"))
               /\ idx' = AfterRuleError
               /\ UNCHANGED << pc, phase, result >>
          ELSE IF Blocks(m.matches)
          THEN \* line 498
               /\ matches' = m.matches
               /\ ruleLog' = Append(ruleLog, Entry(idx, "block"))
               /\ result' = Raised("ZyncPreflightError",
                                   PreflightMessage(preflight_obj, m.matches))
               /\ phase' = "BLOCKED"
               /\ pc' = PcAfterRaise
               /\ UNCHANGED idx
          ELSE /\ matches' = m.matches
               /\ ruleLog' = Append(ruleLog, Entry(idx, "pass"))
               /\ idx' = idx + 1
               /\ UNCHANGED << pc, phase, result >>
    /\ UNCHANGED << cookie, validate, host, job, config, params, submit_params,
                    cur, op, preflight_list,
                    imported, requests, replies >>

\* Job.preflight, line 471: the loop is exhausted and preflight returns
PreflightReturn ==
    /\ pc = "loop"
    /\ idx > Len(preflight_list)
    /\ phase' = "PASSED"
    /\ AfterPreflight
    /\ UNCHANGED << cookie, validate, host, job, config, params, submit_params,
                    cur, op, preflight_list, idx,
                    api_result, matches, ruleLog, imported, requests, replies >>

\* Job.submit builds its request in the dict of the caller
SubmitParamsIsCallerDictAliased == TRUE

\* only the code 1 is an error
AcceptedUnlessOne(code) == code # 1

\* line 514: submit_params is a new dict (as are those of lines 585, 710, 769)
SubmitParamsIsCallerDict == FALSE

\* line 548: the submission succeeded
Accepted(code) == code = 0

(***************************************************************************)
(* Job.submit, lines 507-550 (reached through NukeJob.submit, line 594,    *)
(* MayaJob.submit, line 718, or ArnoldJob.submit, line 777): attach the    *)
(* cookie, POST the parameters, read the response.                         *)
(***************************************************************************)
JobSubmit(code, response) ==
    /\ pc = "submit"
    /\ submit_params' = BuildSubmitParams(cur.job_type, params)
    /\ params' = IF SubmitParamsIsCallerDict THEN submit_params' ELSE params
    /\ IF ~HasCookie(cur.cookie)
       THEN /\ result' = Raised("ZyncAuthenticationError", << "ZYNC Auth Failed" >>)
            /\ UNCHANGED << requests, replies >>
       ELSE /\ requests' = Append(requests, Request("submit_job_v2.php", cur.cookie))
            /\ replies' = Append(replies, Envelope(code, response))
            /\ result' = IF Accepted(code)
                         THEN Returned(response)
                         ELSE Raised("ZyncError", << "Could not submit job: ", response >>)
    /\ pc' = "done"
    /\ UNCHANGED << cookie, validate, host, job, config, cur, op, preflight_list,
                    idx, api_result, matches, ruleLog, imported, phase >>

(***************************************************************************)
(* Zync.submit, line 324: submit through the job object of the session.    *)
(***************************************************************************)
ZyncSubmitCall(p) ==
    /\ pc = "idle"
    /\ Constructed
    /\ op' = "submit"
    /\ params' = p
    /\ IF job = NoJob
       THEN \* the session has no attribute "job" before the first submit_job
            /\ result' = Raised("AttributeError", << "job" >>)
            /\ pc' = "done"
            /\ UNCHANGED cur
       ELSE /\ cur' = job
            /\ pc' = "submit"
            /\ UNCHANGED result
    /\ UNCHANGED << cookie, validate, host, job, config >>
    /\ UNCHANGED Locals

(***************************************************************************)
(* The caller uses a Job object directly: it constructs a Job (lines       *)
(* 330-348), a NukeJob, a MayaJob or an ArnoldJob with the session's       *)
(* cookie and calls its submit or its preflight.                           *)
(***************************************************************************)
JobCall(job_type, method, p) ==
    /\ pc = "idle"
    /\ Constructed
    /\ op' = method
    /\ params' = p
    /\ IF ~HasCookie(cookie)
       THEN /\ result' = Raised("ZyncAuthenticationError", << "ZYNC Authentication failed." >>)
            /\ pc' = "done"
            /\ UNCHANGED cur
       ELSE /\ cur' = NewJob(job_type, cookie, validate)
            /\ pc' = IF method = "Job.preflight" THEN "get_preflight_checks" ELSE "submit"
            /\ UNCHANGED result
    /\ UNCHANGED << cookie, validate, host, job, config >>
    /\ UNCHANGED Locals

\* the call is over: its frame is gone and the caller has seen the result
Return ==
    /\ pc = "done"
    /\ op = "Zync" => result.kind = "return"
    /\ pc' = "idle"
    /\ op' = "none"
    /\ cur' = NoJob
    /\ preflight_list' = << >>
    /\ idx' = 0
    /\ api_result' = NoResult
    /\ matches' = << >>
    /\ ruleLog' = << >>
    /\ imported' = FALSE
    /\ requests' = << >>
    /\ replies' = << >>
    /\ params' = NoParams
    /\ submit_params' = EmptyDict
    /\ phase' = "NOT_RUN"
    /\ result' = NoOutcome
    /\ UNCHANGED << cookie, validate, host, job, config >>

JobClasses == {"unset", "nuke", "maya", "arnold"}

Next ==
    \/ \E jt \in JobTypeArgs : SubmitJobCall(jt, NoParams)
    \/ \E code \in Codes :
          \E response \in (IF code = 0 THEN RuleLists ELSE ServiceMessages) :
             GetPreflightChecks(code, response)
    \/ ImportApp
    \/ \E outcome \in EvalOutcomes : EvalRule(outcome)
    \/ PreflightReturn
    \/ \E code \in Codes :
          \E response \in (IF code = 0 THEN JobIds ELSE ServiceMessages) :
             JobSubmit(code, response)
    \/ ZyncSubmitCall(NoParams)
    \/ \E jt \in JobClasses : \E m \in {"Job.preflight", "Job.submit"} :
          JobCall(jt, m, NoParams)
    \/ Return

Spec == Init /\ [][Next]_vars

(***************************************************************************)
(* The matcher on its own: Job.preflight of a maya or nuke job inside its  *)
(* application stands at the loop (line 471) with one rule fetched, and    *)
(* the rule and the result of its api_call range over MatchRules and       *)
(* MatchOutcomes.                                                          *)
(***************************************************************************)
InitMatch ==
    /\ cookie = "sid1"
    /\ validate = TRUE
    /\ host \in {"maya", "nuke"}
    /\ job = NoJob
    /\ config = ReadyConfig
    /\ params = NoParams
    /\ submit_params = EmptyDict
    /\ cur = NewJob(host, "sid1", TRUE)
    /\ pc = "loop"
    /\ op = "Job.preflight"
    /\ preflight_list \in {<< r >> : r \in MatchRules}
    /\ idx = 1
    /\ api_result = NoResult
    /\ matches = << >>
    /\ ruleLog = << >>
    /\ imported = TRUE
    /\ requests = << Request("get_preflight_checks.php", "sid1") >>
    /\ replies = << Envelope(0, preflight_list) >>
    /\ phase = "EVALUATING"
    /\ result = NoOutcome

NextMatch ==
    \/ \E outcome \in MatchOutcomes : EvalRule(outcome)
    \/ PreflightReturn
    \/ Return

SpecMatch == InitMatch /\ [][NextMatch]_vars

(***************************************************************************)
(* The submission path on its own: the callers pass every params dict of   *)
(* CallerParams to Zync.submit_job, Zync.submit and the submit of a Job,   *)
(* and the rule service has no rule for any job type.                      *)
(***************************************************************************)
NextSubmit ==
    \/ \E jt \in JobTypeArgs : \E p \in CallerParams : SubmitJobCall(jt, p)
    \/ GetPreflightChecks(0, << >>)
    \/ ImportApp
    \/ PreflightReturn
    \/ \E code \in Codes :
          \E response \in (IF code = 0 THEN JobIds ELSE ServiceMessages) :
             JobSubmit(code, response)
    \/ \E p \in CallerParams : ZyncSubmitCall(p)
    \/ \E jt \in JobClasses : \E p \in CallerParams : JobCall(jt, "Job.submit", p)
    \/ Return

SpecSubmit == Init /\ [][NextSubmit]_vars

(***************************************************************************)
(* The session: Zync.__init__ (lines 145-178) over HTTPBackend.__init__    *)
(* (lines 57-71), login (lines 128-137), status (lines 88-97), the get_*   *)
(* calls of the session (lines 180-287) and the job controls of a Job      *)
(* (lines 364-421).                                                        *)
(***************************************************************************)
\* an HTTP status as httplib2 gives it: a string, here the sequence of its
\* characters
Status200 == << "2", "0", "0" >>
Status302 == << "3", "0", "2" >>
Status404 == << "4", "0", "4" >>
Status503 == << "5", "0", "3" >>

\* what self.http.request(self.url, 'GET') does at line 78: it returns a
\* response with a status, a response without one, or raises
Answered(status) == [kind |-> "response", status |-> status]
NoStatus == [kind |-> "response", status |-> << >>]
Failed(e) == [kind |-> "raise", status |-> << e >>]

UpOutcomes ==
    {Answered(st) : st \in {Status200, Status302, Status404, Status503}}
        \cup {NoStatus, Failed("ServerNotFoundError"), Failed("AttributeError")}

\* str.startswith
StartsWith(str, c) == Len(str) > 0 /\ Head(str) = c

\* up() takes every answer for a running service
UpOnAnyAnswer(outcome) == outcome.kind = "response"

\* HTTPBackend.up, lines 77-86
Up(outcome) ==
    IF outcome.kind = "raise"
    THEN FALSE
    ELSE LET status == IF outcome.status = << >> THEN Status404 ELSE outcome.status
         IN  StartsWith(status, "2") \/ StartsWith(status, "3")

\* the answer to the liveness GET, as the request log keeps it
StatusReply(outcome) == [status |-> outcome.status]

\* the value of a Set-Cookie header; "" is a response without the header
\* (resp.get('set-cookie') is None)
Cookies == {"sid1", "sid2", ""}

\* the get_* calls of lines 174-178, in order, and what each is assigned to
Getters == << "get_config", "get_instance_types", "get_enabled_features",
              "get_job_subtypes", "get_maya_renderers" >>

GetterPcs == {Getters[i] : i \in 1..Len(Getters)}

HeldBy(g) ==
    CASE g = "get_config" -> "CONFIG"
      [] g = "get_instance_types" -> "INSTANCE_TYPES"
      [] g = "get_enabled_features" -> "FEATURES"
      [] g = "get_job_subtypes" -> "JOB_SUBTYPES"
      [] OTHER -> "MAYA_RENDERERS"

EndpointOf(g) ==
    CASE g = "get_config" -> "get_config_api.php"
      [] g = "get_instance_types" -> "get_instance_types.php"
      [] g = "get_enabled_features" -> "get_enabled_features.php"
      [] g = "get_job_subtypes" -> "get_job_subtypes.php"
      [] OTHER -> "get_maya_renderers.php"

\* lines 174-178: the statement after the assignment from getter g
AfterGetter(g) ==
    LET i == CHOOSE j \in 1..Len(Getters) : Getters[j] = g
    IN  IF i < Len(Getters) THEN Getters[i + 1] ELSE "done"

\* every call of a get_* method stores what it returns in the session
HoldsResultAlways(o) == TRUE

\* lines 174-178: only Zync.__init__ assigns the result of a get_* call to
\* an attribute of the session
HoldsResult(o) == o = "Zync"

\* lines 68-71, 134-137: authenticate if up, else raise ZyncConnectionError
AfterUpCheck(isup) == IF isup THEN "auth" ELSE "done"

(***************************************************************************)
(* Zync(script_name, token, application=...), lines 155-166 and 60-67:     *)
(* a new session, with its validate flag and no cookie yet.                *)
(***************************************************************************)
ConstructCall(application, api_version) ==
    /\ pc = "idle"
    /\ ~Constructed
    /\ op' = "Zync"
    /\ validate' = ValidateFor(application, host, api_version)
    /\ cookie' = ""
    /\ job' = NoJob
    /\ config' = NoConfig
    /\ pc' = "up"
    /\ result' = NoOutcome
    /\ UNCHANGED << host, cur, params >>
    /\ UNCHANGED Locals

\* session.login(username, password), line 134
LoginCall ==
    /\ pc = "idle"
    /\ Constructed
    /\ op' = "login"
    /\ pc' = "up"
    /\ UNCHANGED << cookie, validate, host, job, config, cur, params, result >>
    /\ UNCHANGED Locals

\* session.status(), line 92
StatusCall ==
    /\ pc = "idle"
    /\ Constructed
    /\ op' = "status"
    /\ pc' = "up"
    /\ UNCHANGED << cookie, validate, host, job, config, cur, params, result >>
    /\ UNCHANGED Locals

(***************************************************************************)
(* "if self.up()" of lines 68, 92 and 134: the liveness GET of lines 77-86 *)
(* and what its caller does with the answer.                               *)
(***************************************************************************)
CheckUp(outcome) ==
    /\ pc = "up"
    /\ requests' = Append(requests, Request("/", ""))
    /\ replies' = Append(replies, StatusReply(outcome))
    /\ IF op = "status"
       THEN IF Up(outcome)
            THEN pc' = "check_server" /\ UNCHANGED result
            ELSE pc' = "done" /\ result' = Returned("down")
       ELSE /\ pc' = AfterUpCheck(Up(outcome))
            /\ result' = IF Up(outcome)
                         THEN result
                         ELSE Raised("ZyncConnectionError", << "ZYNC is down at URL" >>)
    /\ UNCHANGED << cookie, validate, host, job, config, params, submit_params,
                    cur, op, preflight_list, idx, api_result, matches, ruleLog,
                    imported, phase >>

\* HTTPBackend.status, lines 93-95
CheckServer(content) ==
    /\ pc = "check_server"
    /\ requests' = Append(requests, Request("check_server.php", ""))
    /\ replies' = Append(replies, Envelope(0, content))
    /\ result' = Returned(content)
    /\ pc' = "done"
    /\ UNCHANGED << cookie, validate, host, job, config, params, submit_params,
                    cur, op, preflight_list, idx, api_result, matches, ruleLog,
                    imported, phase >>

\* the Set-Cookie header is taken over before the code is looked at
CookieAfterAuthAnyCode(code, set_cookie) == set_cookie

\* lines 69, 135 with 123-126: self.cookie is assigned only if __auth
\* returns, that is, if the code is 0
CookieAfterAuth(code, set_cookie) == IF code = 0 THEN set_cookie ELSE cookie

(***************************************************************************)
(* HTTPBackend.__auth, lines 114-126, and the assignment of its result to  *)
(* self.cookie at lines 69 and 135.  set_cookie is the Set-Cookie header   *)
(* of the response.                                                        *)
(***************************************************************************)
Auth(code, response, set_cookie) ==
    /\ pc = "auth"
    /\ requests' = Append(requests, Request("validate.php", ""))
    /\ replies' = Append(replies, Envelope(code, response))
    /\ cookie' = CookieAfterAuth(code, set_cookie)
    /\ IF code = 0
       THEN IF op = "Zync"
            THEN pc' = Getters[1] /\ UNCHANGED result
            ELSE pc' = "done" /\ result' = Returned("None")
       ELSE /\ result' = Raised("ZyncAuthenticationError", << response >>)
            /\ pc' = "done"
    /\ UNCHANGED << validate, host, job, config, params, submit_params,
                    cur, op, preflight_list, idx, api_result, matches, ruleLog,
                    imported, phase >>

\* session.get_config(), ..., session.get_maya_renderers() called by the user
GetterCall(g) ==
    /\ pc = "idle"
    /\ Constructed
    /\ op' = g
    /\ pc' = g
    /\ UNCHANGED << cookie, validate, host, job, config, cur, params, result >>
    /\ UNCHANGED Locals

\* the end of a get_* call that returns value
GetterReturns(value) ==
    IF HoldsResult(op)
    THEN /\ config' = [config EXCEPT ![HeldBy(pc)] = value]
         /\ pc' = AfterGetter(pc)
         /\ result' = IF AfterGetter(pc) = "done" THEN Returned("Zync") ELSE result
    ELSE /\ pc' = "done"
         /\ result' = Returned(value)
         /\ UNCHANGED config

(***************************************************************************)
(* Zync.get_config (var=None), lines 185-192: content is the body of the   *)
(* answer; a body that is no JSON raises ZyncError.                        *)
(***************************************************************************)
GetConfig(content) ==
    /\ pc = "get_config"
    /\ IF ~HasCookie(cookie)
       THEN /\ result' = Raised("ZyncAuthenticationError", << "ZYNC Authentication failed." >>)
            /\ pc' = "done"
            /\ UNCHANGED << requests, replies, config >>
       ELSE /\ requests' = Append(requests, Request(EndpointOf(pc), cookie))
            /\ replies' = Append(replies, Envelope(0, content))
            /\ IF content = "not json"
               THEN /\ result' = Raised("ZyncError", << content >>)
                    /\ pc' = "done"
                    /\ UNCHANGED config
               ELSE GetterReturns(content)
    /\ UNCHANGED << cookie, validate, host, job, params, submit_params,
                    cur, op, preflight_list, idx, api_result, matches, ruleLog,
                    imported, phase >>

(***************************************************************************)
(* get_instance_types, get_enabled_features, get_job_subtypes and          *)
(* get_maya_renderers, lines 199-247: the envelope is an error only if its *)
(* code is 1.                                                              *)
(***************************************************************************)
Getter(code, response) ==
    /\ pc \in GetterPcs \ {"get_config"}
    /\ IF ~HasCookie(cookie)
       THEN /\ result' = Raised("ZyncAuthenticationError", << "ZYNC Authentication failed." >>)
            /\ pc' = "done"
            /\ UNCHANGED << requests, replies, config >>
       ELSE /\ requests' = Append(requests, Request(EndpointOf(pc), cookie))
            /\ replies' = Append(replies, Envelope(code, response))
            /\ IF code = 1
               THEN /\ result' = Raised("ZyncError", << "Could not retrieve list: ", response >>)
                    /\ pc' = "done"
                    /\ UNCHANGED config
               ELSE GetterReturns(response)
    /\ UNCHANGED << cookie, validate, host, job, params, submit_params,
                    cur, op, preflight_list, idx, api_result, matches, ruleLog,
                    imported, phase >>

\* get_project_list, get_project_name, get_job_details: lines 249-267, 279-287
ListCalls == {"get_project_list", "get_project_name", "get_job_details"}

ListEndpoint(m) ==
    CASE m = "get_project_list" -> "get_project_list.php"
      [] m = "get_project_name" -> "get_project_name.php"
      [] OTHER -> "get_job_params.php"

ListCall(m, content) ==
    /\ pc = "idle"
    /\ Constructed
    /\ op' = m
    /\ pc' = "done"
    /\ IF ~HasCookie(cookie)
       THEN /\ result' = Raised("ZyncAuthenticationError", << "ZYNC Authentication failed." >>)
            /\ UNCHANGED << requests, replies >>
       ELSE /\ requests' = Append(requests, Request(ListEndpoint(m), cookie))
            /\ replies' = Append(replies, Envelope(0, content))
            /\ result' = Returned(content)
    /\ UNCHANGED << cookie, validate, host, job, config, params, submit_params,
                    cur, preflight_list, idx, api_result, matches, ruleLog,
                    imported, phase >>

\* Zync.get_jobs, lines 273-277: the name headers is not defined at line 276
GetJobsCall ==
    /\ pc = "idle"
    /\ Constructed
    /\ op' = "get_jobs"
    /\ pc' = "done"
    /\ result' = Raised("NameError", << "headers" >>)
    /\ UNCHANGED << cookie, validate, host, job, config, cur, params >>
    /\ UNCHANGED Locals

\* Job.details, Job.set_status (cancel, resume, pause, unpause, restart) and
\* Job.retry
JobControls == {"Job.details", "Job.set_status", "Job.retry"}

ControlEndpoint(m) ==
    CASE m = "Job.details" -> "get_job_params.php"
      [] m = "Job.set_status" -> "set_job_status.php"
      [] OTHER -> "retry_errors.php"

\* lines 371, 382, 421: self.http.request(url, 'GET') is given no headers
ControlCookie(j) == ""

(***************************************************************************)
(* A job control on the Job of the session (session.job, lines 364-421).   *)
(***************************************************************************)
JobControlCall(m, content) ==
    /\ pc = "idle"
    /\ Constructed
    /\ job # NoJob
    /\ op' = m
    /\ cur' = job
    /\ pc' = "done"
    /\ requests' = Append(requests, Request(ControlEndpoint(m), ControlCookie(job)))
    /\ replies' = Append(replies, Envelope(0, content))
    /\ result' = Returned(content)
    /\ UNCHANGED << cookie, validate, host, job, config, params, submit_params,
                    preflight_list, idx, api_result, matches, ruleLog,
                    imported, phase >>

\* Zync.__init__ has raised: there is no session
ConstructRaise ==
    /\ pc = "done"
    /\ op = "Zync"
    /\ result.kind # "return"
    /\ pc' = "idle"
    /\ op' = "none"
    /\ cookie' = ""
    /\ validate' = TRUE
    /\ config' = NoConfig
    /\ requests' = << >>
    /\ replies' = << >>
    /\ result' = NoOutcome
    /\ UNCHANGED << host, job, params, submit_params, cur, preflight_list, idx,
                    api_result, matches, ruleLog, imported, phase >>

InitSession ==
    /\ cookie = ""
    /\ validate = TRUE
    /\ host \in Hosts
    /\ job = NoJob
    /\ config = NoConfig
    /\ params = NoParams
    /\ submit_params = EmptyDict
    /\ cur = NoJob
    /\ pc = "idle"
    /\ op = "none"
    /\ preflight_list = << >>
    /\ idx = 0
    /\ api_result = NoResult
    /\ matches = << >>
    /\ ruleLog = << >>
    /\ imported = FALSE
    /\ requests = << >>
    /\ replies = << >>
    /\ phase = "NOT_RUN"
    /\ result = NoOutcome

\* the bodies the service answers a get_* or list request with
Contents == {"v1", "v2"}

NextSession ==
    \/ \E a \in Applications : \E v \in ApiVersions : ConstructCall(a, v)
    \/ LoginCall
    \/ StatusCall
    \/ \E o \in UpOutcomes : CheckUp(o)
    \/ \E content \in Contents : CheckServer(content)
    \/ \E code \in Codes : \E set_cookie \in Cookies :
          \E response \in (IF code = 0 THEN {"ok"} ELSE ServiceMessages) :
             Auth(code, response, set_cookie)
    \/ \E g \in GetterPcs : GetterCall(g)
    \/ \E content \in Contents \cup {"not json"} : GetConfig(content)
    \/ \E code \in Codes :
          \E response \in (IF code = 0 THEN Contents ELSE {"maintenance"}) :
             Getter(code, response)
    \/ \E m \in ListCalls : \E content \in Contents : ListCall(m, content)
    \/ GetJobsCall
    \/ \E m \in JobControls : \E content \in Contents : JobControlCall(m, content)
    \/ SubmitJobCall("arnold", NoParams)
    \/ \E code \in Codes :
          \E response \in (IF code = 0 THEN {<< >>} ELSE {"maintenance"}) :
             GetPreflightChecks(code, response)
    \/ ImportApp
    \/ PreflightReturn
    \/ \E code \in Codes :
          \E response \in (IF code = 0 THEN {"job1"} ELSE {"maintenance"}) :
             JobSubmit(code, response)
    \/ ZyncSubmitCall(NoParams)
    \/ \E m \in {"Job.preflight", "Job.submit"} : JobCall("unset", m, NoParams)
    \/ Return
    \/ ConstructRaise

SpecSession == InitSession /\ [][NextSession]_vars

(***************************************************************************)
(* What the claims speak of.                                               *)
(***************************************************************************)
SentTo(ep) == {i \in 1..Len(requests) : requests[i].endpoint = ep}

\* a submission request has been sent by the running call
SubmissionSent == SentTo("submit_job_v2.php") # {}

\* the running call has fetched its rules (get_preflight_checks returned them)
RulesFetched == pc = "import" \/ phase \in {"EVALUATING", "SKIPPED", "PASSED", "BLOCKED"}

\* the running call runs Job.preflight
RunsPreflight == op \in {"submit_job", "Job.preflight"}

\* Job.preflight of the running call has returned normally
PreflightReturned == phase \in {"PASSED", "SKIPPED"}

\* Job.preflight of the running call has ended by raising
PreflightRaised ==
    /\ RunsPreflight
    /\ result.kind \in {"ZyncPreflightError", "ZyncError", "ZyncAuthenticationError"}
    /\ ~PreflightReturned

(***************************************************************************)
(* C1, as the spec states it: for every job type (maya, nuke, arnold) and  *)
(* every non-empty rule list, if no scripting environment is available in  *)
(* the process, Job.preflight evaluates no rule and raises no              *)
(* ZyncPreflightError.                                                     *)
(***************************************************************************)
C1_AnyJobTypeSkipsWithoutHost ==
    (RunsPreflight /\ RulesFetched /\ Len(preflight_list) > 0 /\ host = "none")
        => /\ ruleLog = << >>
           /\ result.kind # "ZyncPreflightError"

(***************************************************************************)
(* C1, amended: for the job types maya and nuke and every non-empty rule   *)
(* list, if the scripting module of the job's application cannot be        *)
(* imported, Job.preflight returns normally at the import: it evaluates no *)
(* rule and raises no ZyncPreflightError.  (An arnold job imports nothing  *)
(* and evaluates its rules wherever it runs.)                              *)
(***************************************************************************)
C1_MayaNukeSkipWithoutHost ==
    (/\ RunsPreflight /\ RulesFetched /\ Len(preflight_list) > 0
     /\ cur.job_type \in {"maya", "nuke"} /\ host # cur.job_type)
        => /\ ruleLog = << >>
           /\ pc # "loop"
           /\ result.kind # "ZyncPreflightError"
           /\ pc # "import" => phase = "SKIPPED"
           /\ (pc = "done" /\ op = "Job.preflight") => result = Returned("None")

C1_Witness ==
    /\ op = "Job.preflight" /\ pc = "done" /\ phase = "SKIPPED"
    /\ cur.job_type = "nuke" /\ host = "maya"
    /\ Len(preflight_list) = MaxRules
    /\ result = Returned("None")

(***************************************************************************)
(* C2: in Zync.submit_job, when Job.preflight ends by raising (a rule      *)
(* violation or a rule-fetch error), no submission request is sent in that *)
(* call; a submission request is sent only after preflight returned        *)
(* normally (PASSED or SKIPPED).                                           *)
(***************************************************************************)
C2_NoSubmissionWhenPreflightRaises ==
    op = "submit_job" =>
        /\ PreflightRaised => ~SubmissionSent /\ pc = "done"
        /\ SubmissionSent => PreflightReturned
        /\ pc = "submit" => PreflightReturned

C2_Witness ==
    /\ op = "submit_job" /\ pc = "done"
    /\ result.kind = "ZyncPreflightError"
    /\ requests = << Request("get_preflight_checks.php", cookie) >>

(***************************************************************************)
(* C3, as the spec states it: every submission request is preceded, in the *)
(* same call, by a run of Job.preflight that returned normally, whatever   *)
(* public operation sends it.                                              *)
(***************************************************************************)
C3_EverySubmissionAfterPreflight ==
    SubmissionSent => PreflightReturned

(***************************************************************************)
(* C3, amended: every submission request sent by Zync.submit_job is        *)
(* preceded, in the same call, by the rule fetch and by Job.preflight      *)
(* returning normally; Zync.submit and the submit methods of the Job       *)
(* classes send the submission without running preflight.                  *)
(***************************************************************************)
C3_SubmitJobSubmitsAfterPreflight ==
    SubmissionSent =>
        IF op = "submit_job"
        THEN /\ PreflightReturned
             /\ Len(requests) = 2
             /\ requests[1].endpoint = "get_preflight_checks.php"
             /\ requests[2].endpoint = "submit_job_v2.php"
        ELSE /\ op \in {"submit", "Job.submit"}
             /\ phase = "NOT_RUN"
             /\ Len(requests) = 1

C3_Witness ==
    /\ op = "submit_job" /\ pc = "done" /\ SubmissionSent
    /\ phase = "PASSED" /\ Len(ruleLog) = MaxRules
    /\ result = Returned("job1")

\* the entry of ruleLog written last
LastEntry == ruleLog[Len(ruleLog)]

(***************************************************************************)
(* C4: fail-open per rule.  A rule whose evaluation raises is skipped      *)
(* without raising and the rule after it is the next one evaluated; when   *)
(* the first of two rules raises and the second matches, preflight raises  *)
(* ZyncPreflightError with the message of the second rule's template.      *)
(***************************************************************************)
C4_FailOpenPerRule ==
    /\ \A k \in 1..Len(ruleLog) :
           ruleLog[k].end = "error" =>
               \/ /\ k = Len(ruleLog)
                  /\ result.kind # "ZyncPreflightError"
                  /\ \/ pc = "loop" /\ idx = k + 1 /\ result = NoOutcome
                     \/ k = Len(preflight_list) /\ phase = "PASSED"
               \/ /\ k < Len(ruleLog)
                  /\ ruleLog[k + 1].rule = k + 1
    /\ (Len(ruleLog) = 2 /\ ruleLog[1].end = "error" /\ ruleLog[2].end = "block")
           => /\ result.kind = "ZyncPreflightError"
              /\ matches # << >>
              /\ result.msg = PreflightMessage(preflight_list[2], matches)

C4_Witness ==
    /\ Len(ruleLog) = 2 /\ ruleLog[1].end = "error" /\ ruleLog[2].end = "block"
    /\ preflight_list[1].error # preflight_list[2].error
    /\ result = Raised("ZyncPreflightError", << "A", " is unsupported; remove ", "A" >>)

(***************************************************************************)
(* C5: fail-fast in server order.  The rules are evaluated one at a time   *)
(* in the order of preflight_list; preflight raises at the first rule that *)
(* ends with a match, with the message of that rule only, and no rule      *)
(* after it is evaluated.                                                  *)
(***************************************************************************)
C5_FailFastInServerOrder ==
    /\ Len(ruleLog) <= Len(preflight_list)
    /\ \A k \in 1..Len(ruleLog) :
           /\ ruleLog[k].rule = k
           /\ ruleLog[k].end = "block" => k = Len(ruleLog)
    /\ (ruleLog # << >> /\ LastEntry.end = "block")
           => /\ result = Raised("ZyncPreflightError",
                                 PreflightMessage(preflight_list[Len(ruleLog)], matches))
              /\ pc = "done"
              /\ phase = "BLOCKED"
    /\ result.kind = "ZyncPreflightError"
           => ruleLog # << >> /\ LastEntry.end = "block"

C5_Witness ==
    /\ Len(preflight_list) = 2 /\ Len(ruleLog) = 1
    /\ preflight_list[1].error # preflight_list[2].error
    /\ preflight_list[2].operation_type = "not_equal"
    /\ ruleLog[1].end = "block"
    /\ pc = "done"
    /\ result = Raised("ZyncPreflightError", << "A", " is unsupported; remove ", "A" >>)

(***************************************************************************)
(* C6: with an empty rule list Job.preflight returns normally and never    *)
(* attempts to import the scripting module of the application.             *)
(***************************************************************************)
C6_EmptyRulesNeedNoHost ==
    (RunsPreflight /\ RulesFetched /\ preflight_list = << >>)
        => /\ ~imported
           /\ ruleLog = << >>
           /\ phase \in {"FETCHING", "EVALUATING", "PASSED"}
           /\ result.kind \notin {"ZyncPreflightError", "ZyncAuthenticationError"}
           /\ (pc = "done" /\ op = "Job.preflight") => result = Returned("None")
           /\ (pc = "done" /\ op = "submit_job") => SubmissionSent

C6_Witness ==
    /\ op = "Job.preflight" /\ pc = "done" /\ phase = "PASSED"
    /\ preflight_list = << >>
    /\ cur.job_type = "maya" /\ host = "none"
    /\ requests # << >>
    /\ result = Returned("None")

(***************************************************************************)
(* The matcher, stated from the inputs: the elements of an evaluated       *)
(* result, and the texts of those a test selects.                          *)
(***************************************************************************)
Elements(r) == IF r.kind = "scalar" THEN << r.val >> ELSE r.items

Texts(vs) == [i \in 1..Len(vs) |-> vs[i].s]

MembersOf(res, cond) == LET In(x) == x \in cond IN SelectSeq(res, In)

NonMembersOf(res, cond) == LET Out(x) == x \notin cond IN SelectSeq(res, Out)

\* str() works on every element of vs
AllHaveText(vs) == \A i \in 1..Len(vs) : vs[i].t # "uni"

\* the one rule of the list has been evaluated, and eval returned a result
OneRuleEvaluated == Len(preflight_list) = 1 /\ Len(ruleLog) = 1 /\ api_result.kind # "raise"

(***************************************************************************)
(* C7: for a rule with operation_type "equal", matches is exactly the      *)
(* subsequence of the evaluated result whose elements are members of the   *)
(* condition, as strings and in result order (nothing with an empty        *)
(* condition), and the rule blocks iff that list is non-empty.  Stated for *)
(* results whose members all have a str().                                 *)
(***************************************************************************)
C7_EqualMatchesMembers ==
    LET rule == preflight_list[1]
        members == MembersOf(Elements(api_result), rule.condition)
    IN (OneRuleEvaluated /\ rule.operation_type = "equal" /\ AllHaveText(members))
           => /\ matches = Texts(members)
              /\ rule.condition = {} => matches = << >>
              /\ ruleLog[1].end = (IF members # << >> THEN "block" ELSE "pass")
              /\ result.kind = "ZyncPreflightError" <=> members # << >>

C7_Witness ==
    /\ OneRuleEvaluated
    /\ preflight_list[1].operation_type = "equal"
    /\ preflight_list[1].condition = {VA, VB}
    /\ api_result.kind = "list" /\ api_result.items = << VA, VC >>
    /\ matches = << "A" >>
    /\ result.kind = "ZyncPreflightError"

(***************************************************************************)
(* C8: for a rule with operation_type "not_equal", matches is exactly the  *)
(* subsequence of the evaluated result whose elements are not members of   *)
(* the condition, as strings and in result order (every element with an    *)
(* empty condition), and the rule blocks iff that list is non-empty.       *)
(* Stated for results whose non-members all have a str().                  *)
(***************************************************************************)
C8_NotEqualMatchesNonMembers ==
    LET rule == preflight_list[1]
        others == NonMembersOf(Elements(api_result), rule.condition)
    IN (OneRuleEvaluated /\ rule.operation_type = "not_equal" /\ AllHaveText(others))
           => /\ matches = Texts(others)
              /\ rule.condition = {} => matches = Texts(Elements(api_result))
              /\ ruleLog[1].end = (IF others # << >> THEN "block" ELSE "pass")
              /\ result.kind = "ZyncPreflightError" <=> others # << >>

C8_Witness ==
    /\ OneRuleEvaluated
    /\ preflight_list[1].operation_type = "not_equal"
    /\ preflight_list[1].condition = {VA}
    /\ api_result.kind = "list" /\ api_result.items = << VA, VB >>
    /\ matches = << "B" >>
    /\ result.kind = "ZyncPreflightError"

(***************************************************************************)
(* C9: when a rule has at least one match, the message of the raised       *)
(* ZyncPreflightError is the rule's error template with %match% replaced   *)
(* by the matched values in match order, joined with ", "; a rule without  *)
(* a match passes silently and raises nothing.                             *)
(***************************************************************************)
CommaJoined(ms) ==
    [i \in 1..(2 * Len(ms) - 1) |-> IF i % 2 = 1 THEN ms[(i + 1) \div 2] ELSE ", "]

ExpectedMessage(template, ms) ==
    CASE template = MissingPlugins -> << "Missing plugins: " >> \o CommaJoined(ms)
      [] template = Unsupported ->
             CommaJoined(ms) \o << " is unsupported; remove " >> \o CommaJoined(ms)
      [] template = NoPlaceholder -> << "Scene is not ready" >>

C9_MessageIsTemplateWithMatches ==
    OneRuleEvaluated =>
        LET rule == preflight_list[1]
            end == ruleLog[1].end
        IN /\ (matches # << >> /\ end # "error")
                  => /\ end = "block"
                     /\ result = Raised("ZyncPreflightError",
                                        ExpectedMessage(rule.error, matches))
           /\ matches = << >>
                  => /\ end \in {"pass", "error"}
                     /\ result.kind \in {"none", "return"}
                     /\ phase \in {"EVALUATING", "PASSED"}

C9_Witness ==
    /\ OneRuleEvaluated
    /\ preflight_list[1].operation_type = "not_equal"
    /\ preflight_list[1].condition = {}
    /\ api_result.kind = "list" /\ api_result.items = << VB, VC >>
    /\ result = Raised("ZyncPreflightError", << "Missing plugins: ", "B", ", ", "C" >>)

(***************************************************************************)
(* C10: a result that is a single scalar x is treated exactly as the list  *)
(* [x]: the matches and the end of the rule are those of the one-element   *)
(* list; an "equal" rule whose condition does not hold the scalar has no   *)
(* match and passes.                                                       *)
(***************************************************************************)
C10_ScalarIsOneElementList ==
    (OneRuleEvaluated /\ api_result.kind = "scalar") =>
        LET rule == preflight_list[1]
            x == api_result.val
            asList == MatchLoop(rule, << x >>, 1, << >>)
            hit == \/ rule.operation_type = "equal" /\ x \in rule.condition
                   \/ rule.operation_type = "not_equal" /\ x \notin rule.condition
        IN /\ matches = asList.matches
           /\ ruleLog[1].end = (IF asList.raised THEN "error"
                                ELSE IF asList.matches # << >> THEN "block" ELSE "pass")
           /\ ~hit => /\ matches = << >>
                       /\ ruleLog[1].end = "pass"
                       /\ result.kind \in {"none", "return"}
           /\ (hit /\ x.t # "uni") => matches = << x.s >> /\ ruleLog[1].end = "block"

C10_Witness ==
    /\ OneRuleEvaluated
    /\ preflight_list[1].operation_type = "equal"
    /\ preflight_list[1].condition = {VA}
    /\ api_result.kind = "scalar" /\ api_result.val = VC
    /\ matches = << >>
    /\ ruleLog[1].end = "pass"
    /\ pc = "loop" /\ result = NoOutcome

(***************************************************************************)
(* C11: a call that finds no usable job type ends with a ZyncError before  *)
(* any request is sent: Zync.submit_job called with a job type that is not *)
(* nuke, maya or arnold (in any letter case), and the preflight of a base  *)
(* Job, whose job_type is unset.  Neither a rule-fetch request nor a       *)
(* submission request has been sent when the call ends.                    *)
(***************************************************************************)
C11_NoRequestWithoutJobType ==
    [][/\ \A jt \in JobTypeArgs :
            (SubmitJobCall(jt, params') /\ Lower(jt) \notin {"nuke", "maya", "arnold"})
                => /\ result'.kind = "ZyncError"
                   /\ pc' = "done"
                   /\ requests' = << >>
       /\ (pc = "get_preflight_checks" /\ cur.job_type = "unset" /\ pc' # pc)
                => /\ result'.kind = "ZyncError"
                   /\ pc' = "done"
                   /\ requests' = << >>
                   /\ ruleLog' = << >>
       /\ (pc = "done" /\ result.kind = "ZyncError" /\ requests = << >>)
                => (pc' = "idle" /\ requests' = << >>)]_vars

C11_Witness ==
    /\ op = "Job.preflight" /\ cur = NewJob("unset", "sid1", validate)
    /\ pc = "done"
    /\ result = Raised("ZyncError", << "job_type parameter not set" >>)
    /\ requests = << >>

\* the positions in the request log of the rule-fetch requests
FetchRequests == SentTo("get_preflight_checks.php")

(***************************************************************************)
(* C12: when the service answers the rule-fetch request with an envelope   *)
(* whose code is not 0, get_preflight_checks raises a ZyncError whose      *)
(* message holds the response field of that envelope; no rule is held or   *)
(* evaluated, no submission is sent, and the ZyncError is the outcome of   *)
(* the call (of submit_job as of a direct preflight).  When the code is 0, *)
(* the response field is the rule list preflight works on.                 *)
(***************************************************************************)
C12_FetchErrorCarriesServiceMessage ==
    \A i \in FetchRequests :
        IF replies[i].code # 0
        THEN /\ pc = "done"
             /\ result = Raised("ZyncError",
                    << "Could not retrieve list of preflight checks: ",
                       replies[i].response >>)
             /\ preflight_list = << >>
             /\ ruleLog = << >>
             /\ ~SubmissionSent
        ELSE preflight_list = replies[i].response

C12_Witness ==
    /\ op = "submit_job" /\ pc = "done"
    /\ Len(requests) = 1 /\ FetchRequests = {1}
    /\ replies[1] = Envelope(2, "maintenance")
    /\ result = Raised("ZyncError",
           << "Could not retrieve list of preflight checks: ", "maintenance" >>)

\* the body of the submission request, key by key
Body == UrlEncode(submit_params)

\* the defaults that apply to the job of the running call: those of Job.submit
\* overridden by those of the submit of its class
DefaultsOf(jt) == VariantDefaults(jt) @@ SubmitDefaults

(***************************************************************************)
(* C13, as the spec states it: in the parameters sent with a submission,   *)
(* every key the caller supplies carries the caller's value, whether or    *)
(* not Job.submit or the job variant has a default for it, and every       *)
(* default key the caller does not supply carries its default value.       *)
(***************************************************************************)
C13_CallerValueSentForEveryKey ==
    SubmissionSent =>
        /\ \A k \in DOMAIN params : Body[k] = StrOf(params[k])
        /\ \A k \in DOMAIN DefaultsOf(cur.job_type) \ DOMAIN params :
              Body[k] = StrOf(DefaultsOf(cur.job_type)[k])

(***************************************************************************)
(* C13, amended: in the parameters sent with a submission, every key the   *)
(* caller supplies other than scene_info carries the caller's value,       *)
(* whether or not Job.submit or the job variant has a default for it; a    *)
(* scene_info the caller supplies is sent as its JSON encoding; every      *)
(* default key the caller does not supply carries its default value; and   *)
(* no other key is sent.                                                   *)
(***************************************************************************)
C13_CallerValueSentButSceneInfoEncoded ==
    SubmissionSent =>
        /\ \A k \in DOMAIN params \ {"scene_info"} : Body[k] = StrOf(params[k])
        /\ "scene_info" \in DOMAIN params
              => Body["scene_info"] = StrOf(JsonDumps(params["scene_info"]))
        /\ \A k \in DOMAIN DefaultsOf(cur.job_type) \ DOMAIN params :
              Body[k] = StrOf(DefaultsOf(cur.job_type)[k])
        /\ DOMAIN Body = DOMAIN params \cup DOMAIN DefaultsOf(cur.job_type)

C13_Witness ==
    /\ SubmissionSent /\ cur.job_type = "nuke"
    /\ DOMAIN params = {"instance_type", "job_type", "scene_info"}
    /\ Body["instance_type"] = PStr("ZYNC4")
    /\ Body["job_type"] = PStr("Custom")
    /\ Body["file"] = PStr(ScenePath)
    /\ Body["chunk_size"] = PStr("1")

(***************************************************************************)
(* C14: a submission leaves the params dict of the caller as it was: no    *)
(* step of a call changes it, and once Job.submit has run it has the keys  *)
(* and values the caller passed; a scene_info in it is still the structure *)
(* the caller passed, and only the dict that is POSTed holds its JSON text.*)
(***************************************************************************)
C14_CallerParamsUnchanged ==
    [][/\ (pc # "idle" /\ pc' # "idle") => params' = params
       /\ (pc = "submit" /\ pc' = "done" /\ "scene_info" \in DOMAIN params)
             => /\ params'["scene_info"] = CallerValue("scene_info")
                /\ submit_params'["scene_info"] = JsonDumps(CallerValue("scene_info"))
                /\ submit_params'["scene_info"] # params'["scene_info"]]_vars

C14_Witness ==
    /\ pc = "done" /\ SubmissionSent /\ result.kind = "return"
    /\ DOMAIN params = {"scene_info", "frange"}
    /\ params["scene_info"] = PDict("files")
    /\ submit_params["scene_info"] = [t |-> "json", s |-> "files"]

\* the positions in the request log of the submission requests
SubmitRequests == SentTo("submit_job_v2.php")

(***************************************************************************)
(* C15: Job.submit returns the response field of the envelope the service  *)
(* answers the submission with exactly when the code of the envelope is 0; *)
(* for every other code it raises a ZyncError whose message holds the      *)
(* response field.                                                         *)
(***************************************************************************)
C15_SubmitReturnsResponseIffCodeZero ==
    \A i \in SubmitRequests :
        /\ pc = "done"
        /\ replies[i].code = 0 <=> result = Returned(replies[i].response)
        /\ replies[i].code # 0 <=>
              result = Raised("ZyncError", << "Could not submit job: ", replies[i].response >>)

C15_Witness ==
    /\ pc = "done" /\ SubmitRequests = {Len(requests)}
    /\ replies[Len(requests)] = Envelope(2, "unknown job type")
    /\ result = Raised("ZyncError", << "Could not submit job: ", "unknown job type" >>)

\* the rules the running call has evaluated, as positions in preflight_list
EvaluatedRules == {ruleLog[k].rule : k \in 1..Len(ruleLog)}

(***************************************************************************)
(* C16: rules are never cached.  A call holds no rule before its own       *)
(* rule-fetch request and none is left when it is over; a preflight run    *)
(* that got past the job type check has sent exactly one rule-fetch        *)
(* request (no run sends two), and the rules it holds and evaluates are    *)
(* the response of that request, whatever an earlier call was answered.    *)
(***************************************************************************)
C16_RulesFetchedByEveryRun ==
    /\ Cardinality(FetchRequests) <= 1
    /\ (RunsPreflight /\ pc \notin {"idle", "get_preflight_checks"} /\ cur.job_type # "unset")
          => Cardinality(FetchRequests) = 1
    /\ FetchRequests = {} => (preflight_list = << >> /\ ruleLog = << >>)
    /\ \A i \in FetchRequests :
          /\ requests[i].cookie = cur.cookie
          /\ replies[i].code = 0
                => /\ preflight_list = replies[i].response
                   /\ EvaluatedRules \subseteq 1..Len(replies[i].response)
          /\ replies[i].code # 0 => (preflight_list = << >> /\ ruleLog = << >>)
    /\ pc = "idle" => (preflight_list = << >> /\ ruleLog = << >> /\ requests = << >>)

\* a second run: submit_job has run before (the session holds its Job), and
\* this run has evaluated both of the rules it was served
C16_Witness ==
    /\ job # NoJob /\ op = "Job.preflight" /\ cur.job_type = "arnold"
    /\ FetchRequests = {1}
    /\ replies[1].code = 0 /\ Len(replies[1].response) = MaxRules
    /\ preflight_list = replies[1].response
    /\ EvaluatedRules = 1..MaxRules

\* the steps of the preflight pass of one call
PhaseSteps ==
    { << "NOT_RUN", "FETCHING" >>,
      << "FETCHING", "SKIPPED" >>, << "FETCHING", "EVALUATING" >>,
      << "EVALUATING", "PASSED" >>, << "EVALUATING", "BLOCKED" >> }

\* the running call was answered an error envelope
ErrorReplies ==
    {i \in 1..Len(replies) : "code" \in DOMAIN replies[i] /\ replies[i].code # 0}

\* what a call has done at any moment
C17_AtMostOnce ==
    /\ Cardinality(FetchRequests) <= 1
    /\ Cardinality(SubmitRequests) <= 1
    /\ \A j, k \in 1..Len(ruleLog) : j < k => ruleLog[j].rule < ruleLog[k].rule
    /\ \A i \in ErrorReplies : i = Len(requests) /\ pc = "done" /\ result.kind = "ZyncError"
    /\ \A i \in FetchRequests : \A j \in SubmitRequests : i < j
    /\ phase = "BLOCKED" => (pc = "done" /\ ~SubmissionSent)

(***************************************************************************)
(* C17: no retry.  Within one call (Zync.submit_job in particular) the     *)
(* preflight pass only moves forward along NOT_RUN -> FETCHING ->          *)
(* (SKIPPED | EVALUATING) -> (PASSED | BLOCKED); the call sends at most    *)
(* one rule-fetch request and at most one submission request, the fetch    *)
(* first; it evaluates each rule at most once, in increasing position; and *)
(* a request answered with an error envelope is the last request of the    *)
(* call: the call is over and the only step left is its return.            *)
(***************************************************************************)
C17_NoRetry ==
    /\ []C17_AtMostOnce
    /\ [][/\ pc' # "idle"
             => (phase' = phase \/ << phase, phase' >> \in PhaseSteps)
          /\ pc' = "idle" => phase' = "NOT_RUN"
          /\ pc = "done" => (pc' = "idle" /\ requests' = << >>)
          /\ pc' # "idle"
             => (requests' = requests \/ (Len(requests') = Len(requests) + 1
                                          /\ SubSeq(requests', 1, Len(requests)) = requests))]_vars

C17_Witness ==
    /\ op = "submit_job" /\ pc = "done" /\ phase = "PASSED"
    /\ Len(ruleLog) = MaxRules
    /\ FetchRequests = {1} /\ SubmitRequests = {2}
    /\ ErrorReplies = {2}
    /\ result.kind = "ZyncError"

\* the requests of the running call for the value held as attribute k
ConfigRequests(g) == SentTo(EndpointOf(g))

\* what the construction of a session has fetched so far
C18_FetchedOnce ==
    /\ op = "Zync"
          => \A g \in GetterPcs :
                /\ Cardinality(ConfigRequests(g)) <= 1
                /\ config[HeldBy(g)] # "unset"
                      => \E i \in ConfigRequests(g) : config[HeldBy(g)] = replies[i].response
                /\ config[HeldBy(g)] = "unset"
                      => \A i \in ConfigRequests(g) : pc = "done" /\ result.kind = "ZyncError"
    /\ op # "Zync" => (Constructed \/ config = NoConfig)

(***************************************************************************)
(* C18: the configuration a session holds (CONFIG, INSTANCE_TYPES,         *)
(* FEATURES, JOB_SUBTYPES, MAYA_RENDERERS) is fetched once, by             *)
(* Zync.__init__: the construction sends at most one request for each of   *)
(* the five and holds what that request was answered; once the session is  *)
(* constructed no step of any later call (login, status, submit_job,       *)
(* submit, a get_* call, a job control) changes a held value.              *)
(***************************************************************************)
C18_ConfigFetchedOnceAtConstruction ==
    /\ []C18_FetchedOnce
    /\ [][Constructed => config' = config]_vars

\* a later get_instance_types() call is answered another value than the one
\* the session holds
C18_Witness ==
    /\ Constructed /\ op = "get_instance_types" /\ pc = "done"
    /\ result = Returned("v2")
    /\ config["INSTANCE_TYPES"] = "v1"
    /\ ConfigRequests("get_instance_types") = {1}

\* the requests the session token is meant for: all but the liveness GET,
\* the server check of status() and the authentication itself
Authenticated(i) == requests[i].endpoint \notin {"/", "check_server.php", "validate.php"}

(***************************************************************************)
(* C19: once the session is authenticated, every request that is sent to   *)
(* the service (by a config or list getter, the rule fetch, the            *)
(* submission, or the detail / status / retry controls of a Job) carries   *)
(* the cookie of the session or of the Job that sends it.                  *)
(***************************************************************************)
C19_EveryRequestCarriesCookie ==
    \A i \in 1..Len(requests) :
        Authenticated(i)
            => /\ requests[i].cookie # ""
               /\ requests[i].cookie \in {cookie, cur.cookie}

\* the characters a status of a running service starts with
UpStatus(reply) == Len(reply.status) > 0 /\ reply.status[1] \in {"2", "3"}

\* the configuration endpoints
ConfigEndpoints == {EndpointOf(g) : g \in GetterPcs}

(***************************************************************************)
(* C20: construction and login() authenticate only after a liveness GET    *)
(* found the service up, that is, answered with a status that starts with  *)
(* 2 or 3.  After any other answer (another status, no status, server not  *)
(* found, a failing socket) the call raises ZyncConnectionError and the    *)
(* liveness GET is its last request: no authentication request is sent.    *)
(* The construction sends no configuration request before an               *)
(* authentication request was answered with code 0.                        *)
(***************************************************************************)
C20_LivenessBeforeAuthentication ==
    op \in {"Zync", "login"} =>
        /\ Len(requests) > 0 => requests[1].endpoint = "/"
        /\ \A i \in SentTo("/") :
              IF UpStatus(replies[i])
              THEN /\ pc # "up"
                   /\ result.kind # "ZyncConnectionError"
                   /\ pc = "auth" \/ (Len(requests) > i /\ requests[i + 1].endpoint = "validate.php")
              ELSE /\ pc = "done"
                   /\ result.kind = "ZyncConnectionError"
                   /\ Len(requests) = i
        /\ \A i \in SentTo("validate.php") :
              i > 1 /\ requests[i - 1].endpoint = "/" /\ UpStatus(replies[i - 1])
        /\ \A i \in 1..Len(requests) :
              requests[i].endpoint \in ConfigEndpoints
                 => \E j \in SentTo("validate.php") : j < i /\ replies[j].code = 0
        /\ pc \in {"auth"} \cup GetterPcs => SentTo("/") # {}

C20_Witness ==
    /\ op = "login" /\ pc = "done"
    /\ Len(requests) = 1 /\ requests[1].endpoint = "/"
    /\ replies[1].status = Status503
    /\ result.kind = "ZyncConnectionError"
    /\ cookie = "sid2"

(***************************************************************************)
(* C21: a Job borrows the cookie of its session: the cookie that goes with *)
(* a rule-fetch or a submission request is the cookie the session holds    *)
(* when the request is sent.  In particular, after login() has replaced    *)
(* the cookie of the session, a submission through Zync.submit_job or      *)
(* Zync.submit carries the new cookie, not the one from before the login.  *)
(***************************************************************************)
C21_JobRequestsCarrySessionCookie ==
    \A i \in FetchRequests \cup SubmitRequests : requests[i].cookie = cookie

\* the session and the Job of its last submit_job agree on the validate flag
C22_JobValidatesLikeSession ==
    /\ job # NoJob => job.validate = validate
    /\ (op \in {"submit_job", "submit"} /\ cur # NoJob) => cur.validate = validate

(***************************************************************************)
(* C22: the construction of a session disables certificate validation      *)
(* exactly when the application is 'maya', the scripting of maya is        *)
(* available and the version query returns a version below 201400; with    *)
(* another or no application, a version of 201400 or above, no maya        *)
(* scripting or a failing version query, validation is enabled.  The flag  *)
(* of a constructed session never changes, and the Job that submit_job     *)
(* creates (and Zync.submit reuses) has the flag of its session.           *)
(***************************************************************************)
C22_ValidationOffOnlyForOldMaya ==
    /\ []C22_JobValidatesLikeSession
    /\ [][/\ \A a \in Applications : \A v \in ApiVersions :
               ConstructCall(a, v)
                    => (validate' = FALSE
                          <=> (a = "maya" /\ host = "maya"
                               /\ v.kind = "value" /\ v.v < 201400))
          /\ ~(pc = "idle" /\ op' = "Zync") => validate' = validate
                \/ (pc = "done" /\ op = "Zync" /\ ~Constructed)]_vars

C22_Witness ==
    /\ host = "maya" /\ validate = FALSE
    /\ op = "submit_job" /\ SubmissionSent
    /\ job = NewJob("arnold", cookie, FALSE)
    /\ cur = job

\* login() has ended by raising
LoginFailed ==
    /\ op = "login" /\ pc = "done"
    /\ result.kind \in {"ZyncConnectionError", "ZyncAuthenticationError"}

(***************************************************************************)
(* C23: a login() that fails leaves the cookie of the session as it was.   *)
(* No step of a login that ends with ZyncConnectionError (the service is   *)
(* down) or with ZyncAuthenticationError (the code of the authentication   *)
(* response is not 0) changes the cookie; the only step of a login that    *)
(* assigns the cookie is the one that ends it with success, and the return *)
(* of the failed call keeps the cookie too.                                *)
(***************************************************************************)
C23_FailedLoginKeepsCookie ==
    [][/\ (op' = "login" /\ LoginFailed') => cookie' = cookie
       /\ (op = "login" /\ cookie' # cookie)
             => (pc = "auth" /\ pc' = "done" /\ result' = Returned("None")
                 /\ replies'[Len(replies')].code = 0)
       /\ LoginFailed => cookie' = cookie
       /\ (op' = "login" /\ LoginFailed' /\ result'.kind = "ZyncConnectionError")
             => SentTo("validate.php")' = {}]_vars

C23_Witness ==
    /\ LoginFailed /\ result.kind = "ZyncAuthenticationError"
    /\ cookie = "sid1"
    /\ SentTo("validate.php") = {2}
    /\ replies[2].code = 2

\* the operations whose requests go through set_cookie
CookieGuarded == op \notin JobControls \cup {"login", "status"}

\* the running call has ended with the error of an empty cookie and has sent
\* nothing
RefusedForCookie ==
    /\ pc = "done" /\ result.kind = "ZyncAuthenticationError"
    /\ \A i \in 1..Len(requests) : ~Authenticated(i)

(***************************************************************************)
(* C24: no request that is guarded by set_cookie goes out without a        *)
(* cookie.  Every request of a config or list getter, every rule fetch and *)
(* every submission carries a non-empty cookie; when the cookie is empty   *)
(* (an authentication answered with code 0 and no Set-Cookie header), the  *)
(* getter, the construction or submit_job ends with                        *)
(* ZyncAuthenticationError and has sent no such request; and no Job holds  *)
(* an empty cookie: constructing one with an empty cookie raises           *)
(* ZyncAuthenticationError.                                                *)
(***************************************************************************)
C24_NoGuardedRequestWithoutCookie ==
    /\ CookieGuarded
          => \A i \in 1..Len(requests) : Authenticated(i) => requests[i].cookie # ""
    /\ job # NoJob => job.cookie # ""
    /\ cur # NoJob => cur.cookie # ""
    /\ (cookie = "" /\ pc = "done" /\ op \in GetterPcs \cup ListCalls)
          => (RefusedForCookie /\ requests = << >>)
    /\ (cookie = "" /\ op \in {"submit_job", "Job.preflight", "Job.submit"})
          => (RefusedForCookie /\ requests = << >> /\ cur = NoJob)
    /\ (cookie = "" /\ op = "Zync"
        /\ \E j \in SentTo("validate.php") : replies[j].code = 0)
          => (pc = "get_config" \/ RefusedForCookie)

\* the construction is authenticated with code 0 but gets no cookie
C24_Witness ==
    /\ op = "Zync" /\ cookie = ""
    /\ SentTo("validate.php") = {2} /\ replies[2].code = 0
    /\ RefusedForCookie
    /\ Len(requests) = 2

\* the elements of a result that the test of a rule selects
Selected(rule, res) ==
    CASE rule.operation_type = "equal" -> MembersOf(res, rule.condition)
      [] rule.operation_type = "not_equal" -> NonMembersOf(res, rule.condition)
      [] OTHER -> << >>

\* the rule evaluated last got a result from eval(), and str() raises on an
\* element of it that the test of the rule selects
MatchingRaised ==
    /\ ruleLog # << >>
    /\ api_result.kind # "raise"
    /\ ~AllHaveText(Selected(preflight_list[LastEntry.rule], Elements(api_result)))

(***************************************************************************)
(* C25: an error raised while the result of a rule is matched makes the    *)
(* rule inconclusive, also when some elements had been collected as        *)
(* matches before it: the rule raises no ZyncPreflightError, what it had   *)
(* collected is reported nowhere, and preflight goes on with the rule      *)
(* after it (or returns normally if it was the last one).                  *)
(***************************************************************************)
C25_MatchErrorDiscardsMatches ==
    /\ MatchingRaised
          => /\ LastEntry.end = "error"
             /\ result.kind # "ZyncPreflightError"
             /\ phase # "BLOCKED"
             /\ Len(matches) < Len(Normalize(api_result))
             /\ \/ pc = "loop" /\ idx = LastEntry.rule + 1 /\ result = NoOutcome
                \/ LastEntry.rule = Len(preflight_list) /\ phase = "PASSED"
    /\ \A k \in 1..Len(ruleLog) - 1 :
          ruleLog[k].end = "error" => ruleLog[k + 1].rule = ruleLog[k].rule + 1

\* "A" had been collected when str() raised on the second element, and the
\* second rule is the next to be evaluated
C25_Witness ==
    /\ MatchingRaised
    /\ api_result.kind = "list" /\ api_result.items = << VA, VU >>
    /\ matches = << "A" >>
    /\ pc = "loop" /\ idx = 2 /\ Len(preflight_list) = MaxRules
    /\ result = NoOutcome

\* the operation_type of rule r is none of the two the matcher knows
OtherOperation(r) == r.operation_type \notin {"equal", "not_equal"}

(***************************************************************************)
(* C26: a rule whose operation_type is neither 'equal' nor 'not_equal'     *)
(* never matches.  Whatever eval() returns for it and whatever its         *)
(* condition holds, its match list is empty and it ends without an error   *)
(* and without a ZyncPreflightError; preflight goes on with the rule after *)
(* it, or returns normally if it was the last one.  No rule of that kind   *)
(* ever blocks.                                                            *)
(***************************************************************************)
C26_OtherOperationNeverMatches ==
    /\ (ruleLog # << >> /\ OtherOperation(preflight_list[LastEntry.rule])
        /\ api_result.kind # "raise")
          => /\ matches = << >>
             /\ LastEntry.end = "pass"
             /\ result.kind # "ZyncPreflightError"
             /\ \/ pc = "loop" /\ idx = LastEntry.rule + 1 /\ result = NoOutcome
                \/ LastEntry.rule = Len(preflight_list) /\ PreflightReturned
    /\ \A k \in 1..Len(ruleLog) :
          OtherOperation(preflight_list[ruleLog[k].rule])
             => /\ ruleLog[k].end # "block"
                /\ k < Len(ruleLog) => ruleLog[k + 1].rule = ruleLog[k].rule + 1

\* the result holds a member of the condition and an element without str()
C26_Witness ==
    /\ Len(ruleLog) = 1 /\ preflight_list[1].operation_type = "contains"
    /\ api_result.kind = "list" /\ api_result.items = << VA, VU >>
    /\ VA \in preflight_list[1].condition
    /\ matches = << >> /\ LastEntry.end = "pass"
    /\ pc = "loop" /\ idx = 2 /\ Len(preflight_list) = MaxRules

====
